---------------------------- MODULE Spec2Model ----------------------------
(***************************************************************************)
(* A model of main.py, the TX CREWS Majors -> MajorTrans harvester:        *)
(*   parse_id_list, get_json, load_or_fetch_majortrans,                    *)
(*   collect_institute_universe, normalize_program and main.               *)
(*                                                                         *)
(* JSON values are tagged records [t, v]: null, int (v a number) and str   *)
(* (v a sequence of one-character strings).  A JSON object (a Python dict) *)
(* is a function from key names to values; a missing key is a key outside  *)
(* its DOMAIN, and the empty dict is <<>>.                                 *)
(***************************************************************************)
EXTENDS Integers, Sequences, FiniteSets, TLC

VARIABLES
    n_in,                \* SpecNorm: the arguments of one normalize_program call
    n_out,               \* SpecNorm: its result, Pending before the call
    args,                \* the parsed command line (argparse's Namespace)
    pc,                  \* where the process is in main()
    why,                 \* the exception that ended main(), "" if none
    exclude_school_ids,  \* main's exclude_school_ids
    gj,                  \* the get_json call in progress: its locals and its trace
    majors_filtered,     \* main's majors_filtered
    idx,                 \* position of the for loop in majors_filtered
    all_rows,            \* main's all_rows
    processed,           \* per loop iteration of this run: what happened to the program
    cache,               \* the files of ./MajorTrans, by program id
    cache0,              \* the cache as it was when this run started
    out_written,         \* the table this run wrote with to_csv, NoTable if none
    prev                 \* the previous run, when it ran to its end: its rows

mainVars == <<args, pc, why, exclude_school_ids, gj, majors_filtered, idx, all_rows,
              processed, cache, cache0, out_written, prev>>

vars == <<n_in, n_out, mainVars>>

-----------------------------------------------------------------------------
(* JSON / Python values *)

Null == [t |-> "null", v |-> 0]
JInt(n) == [t |-> "int", v |-> n]
JStr(s) == [t |-> "str", v |-> s]

\* dict.get(k): the value, or None when the key is missing
Get(r, k) == IF k \in DOMAIN r THEN r[k] ELSE Null

\* Python truthiness of a value: None, "" and 0 are false
Truthy(x) ==
    CASE x.t = "null" -> FALSE
      [] x.t = "str" -> x.v # <<>>
      [] x.t = "int" -> x.v # 0

\* code points of the characters the model uses
Ord(c) ==
    CASE c = " " -> 32
      [] c = "," -> 44
      [] c = "1" -> 49
      [] c = "2" -> 50
      [] c = "5" -> 53
      [] c = "A" -> 65
      [] c = "B" -> 66
      [] c = "b" -> 98
      [] c = "x" -> 120

\* str < str in Python: lexicographic by code point, a proper prefix first
RECURSIVE StrLess(_, _)
StrLess(a, b) ==
    IF b = <<>> THEN FALSE
    ELSE IF a = <<>> THEN TRUE
    ELSE IF Head(a) # Head(b) THEN Ord(Head(a)) < Ord(Head(b))
    ELSE StrLess(Tail(a), Tail(b))

\* sorted(set of str)
RECURSIVE sorted(_)
sorted(S) ==
    IF S = {} THEN <<>>
    ELSE LET m == CHOOSE x \in S : \A y \in S : ~StrLess(y, x)
         IN  <<m>> \o sorted(S \ {m})

IsDigit(c) == c \in {"1", "2", "5"}

RECURSIVE DigitsValue(_, _)
DigitsValue(s, acc) ==
    IF s = <<>> THEN acc
    ELSE DigitsValue(Tail(s), 10 * acc + (Ord(Head(s)) - 48))

\* str.strip(): spaces removed at both ends
RECURSIVE LStrip(_)
LStrip(s) == IF s # <<>> /\ Head(s) = " " THEN LStrip(Tail(s)) ELSE s

RECURSIVE RStrip(_)
RStrip(s) ==
    IF s # <<>> /\ s[Len(s)] = " " THEN RStrip(SubSeq(s, 1, Len(s) - 1)) ELSE s

strip(s) == RStrip(LStrip(s))

ValueError == "ValueError"

\* int(str): the number, or ValueError; surrounding spaces are accepted
IntOfStr(s) ==
    LET p == strip(s)
    IN  IF p # <<>> /\ \A i \in 1..Len(p) : IsDigit(p[i])
        THEN [ok |-> TRUE, val |-> DigitsValue(p, 0)]
        ELSE [ok |-> FALSE, val |-> 0]

\* int(x) for a JSON int or str
PyInt(x) ==
    IF x.t = "int" THEN [ok |-> TRUE, val |-> x.v] ELSE IntOfStr(x.v)

-----------------------------------------------------------------------------
(* collect_institute_universe and normalize_program *)

DEFAULT_YEAR == 2022
DEFAULT_EXCLUDE_IDS == {134, 142, 141}

MAJOR_TRANS_URL_TPL == "https://api.txcrews.org/api/MajorTrans/{program_id}"
DASHBOARD_URL_TPL == "https://txcrews.org/major-dashboard/{program_id}"

\* TPL.format(program_id=pid)
Format(tpl, pid) == <<tpl, pid>>

metric_keys ==
    << "schoolProfileId", "degreeLevelId", "degreeLevelName",
       "numberOfGraduates", "tuitionFee", "degreeTimeFinish", "loanPercent",
       "loanAmount", "wagesYear1", "wagesYear3", "wagesYear5", "wagesYear8",
       "wagesYear10", "loanPercentWagesYear1" >>

MetricKeySet == {metric_keys[i] : i \in 1..Len(metric_keys)}

collect_institute_universe_byLength(dld) ==
    LET names == {Get(dld[i], "instituteLegalName").v :
                    i \in {j \in 1..Len(dld) :
                             Truthy(Get(dld[j], "instituteLegalName"))}}
        RECURSIVE byLen(_)
        byLen(S) ==
            IF S = {} THEN <<>>
            ELSE LET m == CHOOSE x \in S :
                            \A y \in S : Len(x) < Len(y)
                                         \/ (Len(x) = Len(y) /\ ~StrLess(y, x))
                 IN  <<m>> \o byLen(S \ {m})
    IN  byLen(names)

collect_institute_universe(dld) ==
    LET names == {Get(dld[i], "instituteLegalName").v :
                    i \in {j \in 1..Len(dld) :
                             Truthy(Get(dld[j], "instituteLegalName"))}}
    IN  sorted(names)

\* the mutant of KeepPoint: a missing schoolProfileId counts as excluded
KeepPoint_dropMissing(r, excl) ==
    /\ Get(r, "schoolProfileId") # Null
    /\ PyInt(Get(r, "schoolProfileId")).val \notin excl

\* the filter condition of step 1 (int() is known not to raise here)
KeepPoint(r, excl) ==
    \/ Get(r, "schoolProfileId") = Null
    \/ PyInt(Get(r, "schoolProfileId")).val \notin excl

\* int(r.get("schoolProfileId")) raises for some row of the comprehension
FilterRaises(dld, excl) ==
    \E i \in 1..Len(dld) :
        /\ Get(dld[i], "schoolProfileId") # Null
        /\ ~PyInt(Get(dld[i], "schoolProfileId")).ok

RECURSIVE Flatten(_)
Flatten(ss) == IF ss = <<>> THEN <<>> ELSE Head(ss) \o Flatten(Tail(ss))

normalize_program(program, majortrans, year, excl) ==
    LET program_id == PyInt(Get(program, "programId")).val
        program_long == Get(program, "programLongName")
        dld_raw == IF "degreeLevelData" \in DOMAIN majortrans
                   THEN majortrans["degreeLevelData"] ELSE <<>>
        dld_all == IF excl # {}
                   THEN SelectSeq(dld_raw,
                                  LAMBDA r : KeepPoint(r, excl))
                   ELSE dld_raw
        institutes == collect_institute_universe(dld_all)
        rows_yr == SelectSeq(dld_all, LAMBDA r : Get(r, "year") = JInt(year))
        by_institute_yr(inst) ==
            SelectSeq(rows_yr,
                      LAMBDA r : /\ Truthy(Get(r, "instituteLegalName"))
                                 /\ Get(r, "instituteLegalName").v = inst)
        base(inst, flag) ==
            [programId |-> program_id,
             programLongName |-> program_long,
             year |-> year,
             instituteLegalName |-> inst,
             has_year_data |-> flag,
             apiUrl |-> Format(MAJOR_TRANS_URL_TPL, program_id),
             dashboardUrl |-> Format(DASHBOARD_URL_TPL, program_id)]
        data_row(inst, r) == base(inst, 1) @@ [k \in MetricKeySet |-> Get(r, k)]
        placeholder(inst) == base(inst, 0) @@ [k \in MetricKeySet |-> Null]
        rows_of(inst) ==
            LET rows == by_institute_yr(inst)
            IN  IF rows # <<>>
                THEN [i \in 1..Len(rows) |-> data_row(inst, rows[i])]
                ELSE <<placeholder(inst)>>
    IN  IF excl # {} /\ FilterRaises(dld_raw, excl)
        THEN [ok |-> FALSE, rows |-> <<>>]
        ELSE [ok |-> TRUE,
              rows |-> Flatten([i \in 1..Len(institutes) |-> rows_of(institutes[i])])]

-----------------------------------------------------------------------------
(* parse_id_list *)

\* raw.replace(",", " ")
CommasToSpaces(raw) == [i \in 1..Len(raw) |-> IF raw[i] = "," THEN " " ELSE raw[i]]

\* str.split(): the maximal runs of non-space characters, in order
RECURSIVE SplitFrom(_, _)
SplitFrom(s, cur) ==
    IF s = <<>> THEN (IF cur = <<>> THEN <<>> ELSE <<cur>>)
    ELSE IF Head(s) = " "
         THEN (IF cur = <<>> THEN <<>> ELSE <<cur>>) \o SplitFrom(Tail(s), <<>>)
         ELSE SplitFrom(Tail(s), Append(cur, Head(s)))

split(s) == SplitFrom(s, <<>>)

\* an Optional[str] argument: given = FALSE is None
NoneStr == [given |-> FALSE, s |-> <<>>]
SomeStr(s) == [given |-> TRUE, s |-> s]

\* kind "None": flag omitted; "set": the parsed set; ValueError: raised
parse_id_list(raw) ==
    IF ~raw.given THEN [kind |-> "None", ids |-> {}]
    ELSE IF strip(raw.s) = <<>> THEN [kind |-> "set", ids |-> {}]
    ELSE LET parts == split(CommasToSpaces(raw.s))
         IN  IF \E i \in 1..Len(parts) : ~IntOfStr(parts[i]).ok
             THEN [kind |-> ValueError, ids |-> {}]
             ELSE [kind |-> "set", ids |-> {IntOfStr(parts[i]).val : i \in 1..Len(parts)}]

-----------------------------------------------------------------------------
(* get_json *)

\* JSON containers
JList(seq) == [t |-> "list", v |-> seq]
JDict(d) == [t |-> "dict", v |-> d]

\* what one session.get + raise_for_status + resp.json() can end with:
\* "ok" (body is the parsed JSON), requests.ConnectionError, requests.Timeout,
\* requests.HTTPError (resp: e.response is not None; status: its status_code)
\* or json.JSONDecodeError
Outcome(kind, resp, status, body) ==
    [kind |-> kind, resp |-> resp, status |-> status, body |-> body]
NoExc == Outcome("none", FALSE, 0, Null)
Ok(body) == Outcome("ok", FALSE, 0, body)
ConnectionError == Outcome("ConnectionError", FALSE, 0, Null)
Timeout == Outcome("Timeout", FALSE, 0, Null)
HTTPError(status) == Outcome("HTTPError", TRUE, status, Null)
HTTPErrorNoResponse == Outcome("HTTPError", FALSE, 0, Null)
JSONDecodeError == Outcome("JSONDecodeError", FALSE, 0, Null)

retries_default == 3

NoCall ==
    [url |-> <<>>, retries |-> 0, attempt |-> 0, last_exc |-> NoExc,
     log |-> <<>>, st |-> "idle", result |-> Null, exc |-> NoExc]

\* the locals of get_json(session, url, retries=n) on entry
NewCall(url, n) ==
    [url |-> url, retries |-> n, attempt |-> 1, last_exc |-> NoExc,
     log |-> <<>>, st |-> "running", result |-> Null, exc |-> NoExc]

Request(o) == [ev |-> "request", outcome |-> o, exp |-> 0]
\* time.sleep(backoff ** exp)
Sleep(exp) == [ev |-> "sleep", outcome |-> NoExc, exp |-> exp]

\* the mutant of RetryableStatus: every HTTP error status is retried
RetryableStatus_all(o) == TRUE

\* line 108: status == 429 or 500 <= status < 600, status None without response
RetryableStatus(o) ==
    /\ o.resp
    /\ (o.status = 429 \/ (500 <= o.status /\ o.status < 600))

\* the mutant of SleepsAfter: the backoff sleep follows every failed attempt
SleepsAfter_always(attempt, retries) == attempt <= retries

\* line 115
SleepsAfter(attempt, retries) == attempt < retries

\* one iteration of the for loop of get_json, the request ending with o; the
\* statements after the loop are part of the last iteration
GetJsonStep(c, o) ==
    LET logged == Append(c.log, Request(o))
        retry ==
            LET slept == IF SleepsAfter(c.attempt, c.retries)
                         THEN Append(logged, Sleep(c.attempt - 1)) ELSE logged
            IN  IF c.attempt + 1 <= c.retries
                THEN [c EXCEPT !.attempt = c.attempt + 1, !.last_exc = o,
                               !.log = slept]
                ELSE [c EXCEPT !.attempt = c.attempt + 1, !.last_exc = o,
                               !.log = slept, !.st = "raised", !.exc = o]
        raise == [c EXCEPT !.log = logged, !.st = "raised", !.exc = o]
    IN  CASE o.kind = "ok" ->
                [c EXCEPT !.log = logged, !.st = "returned", !.result = o.body]
          [] o.kind \in {"ConnectionError", "Timeout"} -> retry
          [] o.kind = "HTTPError" -> IF RetryableStatus(o) THEN retry ELSE raise
          [] o.kind = "JSONDecodeError" -> raise

GetJsonAttempt(o) ==
    /\ gj.st = "running"
    /\ gj' = GetJsonStep(gj, o)
    /\ UNCHANGED <<n_in, n_out, args, pc, why, exclude_school_ids, majors_filtered,
                   idx, all_rows, processed, cache, cache0, out_written, prev>>

-----------------------------------------------------------------------------
(* load_or_fetch_majortrans and main *)

MAJORS_URL == "https://api.txcrews.org/api/Majors"

\* an Optional[int] argument
NoneInt == [given |-> FALSE, val |-> 0]
SomeInt(n) == [given |-> TRUE, val |-> n]

\* a file of OUT_DIR: absent, opened for writing and not yet written in full,
\* or holding the JSON text of doc
Absent == [kind |-> "absent", doc |-> <<>>]
Partial == [kind |-> "partial", doc |-> <<>>]
File(doc) == [kind |-> "json", doc |-> doc]

\* json.load(f): the document, or JSONDecodeError on an incomplete text
json_load(file) ==
    IF file.kind = "json" THEN [ok |-> TRUE, val |-> file.doc]
    ELSE [ok |-> FALSE, val |-> <<>>]

NoTable == [written |-> FALSE, columns |-> <<>>, rows |-> <<>>]

FIRST ==
    << "programId", "programLongName", "year", "apiUrl", "dashboardUrl",
       "instituteLegalName", "has_year_data", "schoolProfileId" >>

\* df.columns: the keys of a row in insertion order
RowColumns ==
    << "programId", "programLongName", "year", "instituteLegalName",
       "has_year_data", "apiUrl", "dashboardUrl" >> \o metric_keys

\* lines 307-317: the table written by to_csv
Table(rows) ==
    LET REST == SelectSeq(RowColumns,
                          LAMBDA c : \A i \in 1..Len(FIRST) : FIRST[i] # c)
    IN  [written |-> TRUE, columns |-> FIRST \o REST, rows |-> rows]

NoPrev == [valid |-> FALSE, rows |-> <<>>, fetch_failed |-> FALSE]

\* lines 278-283
in_range(pid) ==
    /\ ~(args.start_id.given /\ pid < args.start_id.val)
    /\ ~(args.end_id.given /\ pid > args.end_id.val)

ProgramId(m) == PyInt(m["programId"]).val

\* list.sort(key=int(programId)): stable, ascending
RECURSIVE SortByProgramId(_)
SortByProgramId(ms) ==
    IF ms = <<>> THEN <<>>
    ELSE LET i == CHOOSE k \in 1..Len(ms) :
                    \A j \in 1..Len(ms) :
                        \/ ProgramId(ms[k]) < ProgramId(ms[j])
                        \/ (ProgramId(ms[k]) = ProgramId(ms[j]) /\ k <= j)
         IN  <<ms[i]>> \o SortByProgramId(SubSeq(ms, 1, i - 1)
                                           \o SubSeq(ms, i + 1, Len(ms)))

\* lines 285-289
SelectMajors(majors) ==
    LET kept == SelectSeq(majors,
                          LAMBDA m : /\ m.t = "dict"
                                     /\ "programId" \in DOMAIN m.v
                                     /\ in_range(ProgramId(m.v)))
    IN  SortByProgramId([i \in 1..Len(kept) |-> kept[i].v])

\* lines 258-267: the exclusion set, or ValueError out of parse_id_list
DetermineExclusion ==
    /\ pc = "start"
    /\ LET parsed == parse_id_list(args.exclude_school_ids)
       IN  IF parsed.kind = ValueError
           THEN /\ pc' = "aborted" /\ why' = ValueError
                /\ UNCHANGED exclude_school_ids
           ELSE /\ pc' = "session" /\ why' = why
                /\ exclude_school_ids' =
                       IF parsed.kind = "None" THEN DEFAULT_EXCLUDE_IDS
                       ELSE parsed.ids
    /\ UNCHANGED <<n_in, n_out, args, gj, majors_filtered, idx, all_rows,
                   processed, cache, cache0, out_written, prev>>

\* lines 269-272: the session is opened and get_json(s, MAJORS_URL) entered
FetchMajors ==
    /\ pc = "session"
    /\ pc' = "majors"
    /\ gj' = NewCall(MAJORS_URL, retries_default)
    /\ UNCHANGED <<n_in, n_out, args, why, exclude_school_ids, majors_filtered,
                   idx, all_rows, processed, cache, cache0, out_written, prev>>

\* the mutant of IsList: any JSON container passes for a list
IsList_anyContainer(x) == x.t \in {"list", "dict"}

\* line 274: isinstance(majors, list)
IsList(x) == x.t = "list"

\* lines 272-292: get_json has ended; its exception leaves main, a payload
\* that is no list raises ValueError, a list is filtered and sorted
MajorsDone ==
    /\ pc = "majors" /\ gj.st \in {"returned", "raised"}
    /\ IF gj.st = "raised"
       THEN /\ pc' = "aborted" /\ why' = gj.exc.kind
            /\ UNCHANGED <<majors_filtered, idx>>
       ELSE IF ~IsList(gj.result)
       THEN /\ pc' = "aborted" /\ why' = "ValueError: Majors payload is not a list."
            /\ UNCHANGED <<majors_filtered, idx>>
       ELSE /\ pc' = "loop" /\ why' = why
            /\ majors_filtered' = SelectMajors(gj.result.v)
            /\ idx' = 1
    /\ gj' = NoCall
    /\ UNCHANGED <<n_in, n_out, args, exclude_school_ids, all_rows, processed,
                   cache, cache0, out_written, prev>>

CurPid == ProgramId(majors_filtered[idx])

Entry(pid, outcome, fetched, mt) ==
    [pid |-> pid, outcome |-> outcome, fetched |-> fetched, mt |-> mt]

\* the mutant of AfterLoad: a failing normalize_program empties all_rows
AfterLoad_failureClears(mt, fetched) ==
    LET res == normalize_program(majors_filtered[idx], mt, args.year,
                                 exclude_school_ids)
    IN  /\ all_rows' = IF res.ok THEN all_rows \o res.rows ELSE <<>>
        /\ processed' = Append(processed,
               Entry(CurPid, IF res.ok THEN "ok" ELSE "normalize_failed",
                     fetched, mt))
        /\ idx' = idx + 1
        /\ pc' = "loop"

\* lines 299-304 once load_or_fetch_majortrans returned mt: normalize and
\* extend all_rows, or log the exception; then the next iteration
AfterLoad(mt, fetched) ==
    LET res == normalize_program(majors_filtered[idx], mt, args.year,
                                 exclude_school_ids)
    IN  /\ all_rows' = IF res.ok THEN all_rows \o res.rows ELSE all_rows
        /\ processed' = Append(processed,
               Entry(CurPid, IF res.ok THEN "ok" ELSE "normalize_failed",
                     fetched, mt))
        /\ idx' = idx + 1
        /\ pc' = "loop"

\* the mutant of CacheHit: the sense of --force is inverted
CacheHit_forceInverted(pid) == cache[pid] # Absent /\ args.force

\* the mutant of CacheHit: --force is ignored once the file exists
CacheHit_ignoreForce(pid) == cache[pid] # Absent

\* line 124: path.exists() and not force
CacheHit(pid) == cache[pid] # Absent /\ ~args.force

\* lines 124-126 and 299-304: the file exists and force is off; json.load
\* returns its document or raises, which the loop's except logs
LoadFromCache ==
    /\ pc = "loop" /\ idx <= Len(majors_filtered)
    /\ CacheHit(CurPid)
    /\ LET loaded == json_load(cache[CurPid])
       IN  IF loaded.ok
           THEN AfterLoad(loaded.val, FALSE)
           ELSE /\ processed' = Append(processed,
                       Entry(CurPid, "cache_corrupt", FALSE, <<>>))
                /\ idx' = idx + 1
                /\ UNCHANGED <<pc, all_rows>>
    /\ UNCHANGED <<n_in, n_out, args, why, exclude_school_ids, gj,
                   majors_filtered, cache, cache0, out_written, prev>>

\* lines 127-128: get_json(session, url) is entered for the program
StartFetch ==
    /\ pc = "loop" /\ idx <= Len(majors_filtered)
    /\ ~CacheHit(CurPid)
    /\ pc' = "detail"
    /\ gj' = NewCall(Format(MAJOR_TRANS_URL_TPL, CurPid), retries_default)
    /\ UNCHANGED <<n_in, n_out, args, why, exclude_school_ids, majors_filtered,
                   idx, all_rows, processed, cache, cache0, out_written, prev>>

\* lines 128-129 and 303-304: get_json has ended; its exception is logged by
\* the loop's except, otherwise path.open("w") truncates the file
DetailDone ==
    /\ pc = "detail" /\ gj.st \in {"returned", "raised"}
    /\ IF gj.st = "raised"
       THEN /\ processed' = Append(processed,
                   Entry(CurPid, "fetch_failed", TRUE, <<>>))
            /\ idx' = idx + 1
            /\ pc' = "loop"
            /\ gj' = NoCall
            /\ UNCHANGED cache
       ELSE /\ cache' = [cache EXCEPT ![CurPid] = Partial]
            /\ pc' = "write"
            /\ UNCHANGED <<processed, idx, gj>>
    /\ UNCHANGED <<n_in, n_out, args, why, exclude_school_ids, majors_filtered,
                   all_rows, cache0, out_written, prev>>

\* lines 130-131 and 299-304: json.dump completes the file, data is returned
\* and normalized
WriteFile ==
    /\ pc = "write"
    /\ cache' = [cache EXCEPT ![CurPid] = File(gj.result.v)]
    /\ AfterLoad(gj.result.v, TRUE)
    /\ gj' = NoCall
    /\ UNCHANGED <<n_in, n_out, args, why, exclude_school_ids, majors_filtered,
                   cache0, out_written, prev>>

\* lines 306-320: the loop is over; the table is written when there are rows
Finish ==
    /\ pc = "loop" /\ idx > Len(majors_filtered)
    /\ pc' = "done"
    /\ out_written' = IF all_rows # <<>> THEN Table(all_rows) ELSE NoTable
    /\ UNCHANGED <<n_in, n_out, args, why, exclude_school_ids, gj,
                   majors_filtered, idx, all_rows, processed, cache, cache0, prev>>

Running == pc \in {"start", "session", "majors", "loop", "detail", "write"}

\* the process is terminated: its memory is lost, the files stay as they are
Kill ==
    /\ Running
    /\ pc' = "killed"
    /\ why' = "" /\ exclude_school_ids' = {} /\ gj' = NoCall
    /\ majors_filtered' = <<>> /\ idx' = 0 /\ all_rows' = <<>>
    /\ processed' = <<>> /\ out_written' = NoTable /\ prev' = NoPrev
    /\ UNCHANGED <<n_in, n_out, args, cache, cache0>>

\* the program is run again on the same files, with the same arguments but
\* for --force
StartRun ==
    /\ pc \in {"done", "aborted", "killed"}
    /\ \E f \in BOOLEAN : args' = [args EXCEPT !.force = f]
    /\ pc' = "start"
    /\ why' = "" /\ exclude_school_ids' = {} /\ gj' = NoCall
    /\ majors_filtered' = <<>> /\ idx' = 0 /\ all_rows' = <<>>
    /\ processed' = <<>> /\ out_written' = NoTable
    /\ cache0' = cache
    /\ prev' = IF pc = "done"
               THEN [valid |-> TRUE, rows |-> all_rows,
                     fetch_failed |-> \E i \in 1..Len(processed) :
                                          processed[i].outcome = "fetch_failed"]
               ELSE NoPrev
    /\ UNCHANGED <<n_in, n_out, cache>>

-----------------------------------------------------------------------------
(* Spec: runs of main against a server and the files of ./MajorTrans *)

\* the list endpoint's programs: 12 and 99 fall outside --start-id 20
\* --end-id 50, one element is no object, 25 comes as a string and after 30
ProgramsPayload ==
    << JDict([programId |-> JInt(30), programLongName |-> JStr(<<"B">>)]),
       JStr(<<"x">>),
       JDict([programId |-> JInt(99), programLongName |-> JStr(<<"x">>)]),
       JDict([programId |-> JStr(<<"2", "5">>), programLongName |-> JStr(<<"A">>)]),
       JDict([programLongName |-> JStr(<<"A", "b">>)]),
       JDict([programId |-> JInt(12), programLongName |-> JStr(<<"b">>)]) >>

PIDs == {25, 30}

\* a detail record: institute "Ab" with a 2022 point of profile 5 and one of
\* the excluded profile 134, institute "B" with a 2021 point only and no
\* schoolProfileId, and a point without institute name
GoodRecord ==
    [degreeLevelData |->
        << [instituteLegalName |-> JStr(<<"B">>), year |-> JInt(2021),
            degreeLevelId |-> JInt(1)],
           [instituteLegalName |-> JStr(<<"A", "b">>), year |-> JInt(2022),
            degreeLevelId |-> JInt(2), schoolProfileId |-> JInt(134)],
           [instituteLegalName |-> JStr(<<"A", "b">>), year |-> JInt(2022),
            degreeLevelId |-> JInt(1), schoolProfileId |-> JStr(<<"5">>),
            numberOfGraduates |-> JInt(12)],
           [year |-> JInt(2022), degreeLevelId |-> JInt(5)] >>]

\* a detail record whose schoolProfileId int() cannot convert
BadRecord ==
    [degreeLevelData |->
        << [instituteLegalName |-> JStr(<<"B">>), year |-> JInt(2022),
            degreeLevelId |-> JInt(1), schoolProfileId |-> JStr(<<"x">>)] >>]

\* what the server can answer to one request of url
ServerOutcomes(url) ==
    {ConnectionError, HTTPError(503), HTTPError(404), JSONDecodeError}
    \cup (IF url = MAJORS_URL
          THEN {Ok(JList(ProgramsPayload)), Ok(JDict(<<>>))}
          ELSE {Ok(JDict(GoodRecord)), Ok(JDict(BadRecord))})

MainIdle ==
    /\ args = [exclude_school_ids |-> NoneStr, start_id |-> NoneInt,
               end_id |-> NoneInt, year |-> DEFAULT_YEAR, force |-> FALSE]
    /\ pc = "idle" /\ why = "" /\ exclude_school_ids = {} /\ gj = NoCall
    /\ majors_filtered = <<>> /\ idx = 0 /\ all_rows = <<>> /\ processed = <<>>
    /\ cache = [p \in PIDs |-> Absent] /\ cache0 = [p \in PIDs |-> Absent]
    /\ out_written = NoTable /\ prev = NoPrev

\* the first run: uv run main.py --start-id 20 --end-id 50 [--force], with or
\* without --exclude-school-ids "", on an empty ./MajorTrans
Init ==
    /\ n_in = <<>> /\ n_out = <<>>
    /\ args \in [exclude_school_ids : {NoneStr, SomeStr(<<>>)},
                 start_id : {SomeInt(20)}, end_id : {SomeInt(50)},
                 year : {DEFAULT_YEAR}, force : BOOLEAN]
    /\ pc = "start" /\ why = "" /\ exclude_school_ids = {} /\ gj = NoCall
    /\ majors_filtered = <<>> /\ idx = 0 /\ all_rows = <<>> /\ processed = <<>>
    /\ cache = [p \in PIDs |-> Absent] /\ cache0 = [p \in PIDs |-> Absent]
    /\ out_written = NoTable /\ prev = NoPrev

ServerAnswers == \E o \in ServerOutcomes(gj.url) : GetJsonAttempt(o)

Next ==
    \/ DetermineExclusion
    \/ FetchMajors
    \/ ServerAnswers
    \/ MajorsDone
    \/ LoadFromCache
    \/ StartFetch
    \/ DetailDone
    \/ WriteFile
    \/ Finish
    \/ Kill
    \/ StartRun

Spec == Init /\ [][Next]_vars

\* the entry the loop added in this step
L_added == processed'[Len(processed')]

\* C3: load_or_fetch_majortrans(id, force).  File present and force off: the
\* file's parsed content is what the loop gets (a decode failure if the text
\* is incomplete), no request is made and no file written.  Otherwise one
\* get_json call for the detail URL of id is made; while it runs and when it
\* fails no file is created or changed and the failure reaches the caller;
\* when it succeeds the file of id, and only that file, is written with the
\* fetched value, which is the value returned.  The files of all other ids
\* stay as they are throughout.
C3_LoadOrFetch ==
    [][ /\ (pc \notin {"loop", "detail", "write"}) => cache' = cache
        /\ (pc = "loop" /\ idx > Len(majors_filtered)) => cache' = cache
        /\ (pc = "loop" /\ idx <= Len(majors_filtered) /\ pc' # "killed") =>
               IF cache[CurPid] # Absent /\ ~args.force
               THEN /\ cache' = cache
                    /\ gj' = gj /\ gj = NoCall
                    /\ Len(processed') = Len(processed) + 1
                    /\ L_added.pid = CurPid /\ ~L_added.fetched
                    /\ IF cache[CurPid].kind = "json"
                       THEN /\ L_added.outcome \in {"ok", "normalize_failed"}
                            /\ L_added.mt = cache[CurPid].doc
                       ELSE L_added.outcome = "cache_corrupt"
               ELSE /\ cache' = cache /\ processed' = processed
                    /\ pc' = "detail"
                    /\ gj' = NewCall(Format(MAJOR_TRANS_URL_TPL, CurPid), gj'.retries)
        /\ (pc = "detail" /\ pc' # "killed") =>
               /\ \A q \in PIDs : q # CurPid => cache'[q] = cache[q]
               /\ gj.st = "running" =>
                      /\ cache' = cache /\ processed' = processed
                      /\ pc' = "detail" /\ gj'.url = gj.url
               /\ gj.st = "raised" =>
                      /\ cache' = cache
                      /\ Len(processed') = Len(processed) + 1
                      /\ L_added.pid = CurPid
                      /\ L_added.outcome = "fetch_failed"
                      /\ all_rows' = all_rows
               /\ gj.st = "returned" =>
                      /\ pc' = "write" /\ gj' = gj /\ processed' = processed
        /\ (pc = "write" /\ pc' # "killed") =>
               /\ cache' = [cache EXCEPT ![CurPid] = File(gj.result.v)]
               /\ Len(processed') = Len(processed) + 1
               /\ L_added.pid = CurPid /\ L_added.fetched
               /\ L_added.mt = gj.result.v
               /\ L_added.outcome \in {"ok", "normalize_failed"}
      ]_vars

\* C3's case: in one run, one program was read from its file and another was
\* fetched and written, while --force was off
C3_Witness ==
    /\ ~args.force
    /\ \E i, j \in 1..Len(processed) :
           /\ processed[i].outcome = "ok" /\ ~processed[i].fetched
           /\ cache[processed[i].pid] = File(processed[i].mt)
           /\ processed[j].outcome = "ok" /\ processed[j].fetched
           /\ cache[processed[j].pid] = File(processed[j].mt)
           /\ cache0[processed[j].pid] = Absent

\* the second of two runs that both ran to their end, made with --force off
R_second == pc = "done" /\ prev.valid /\ ~args.force
\* no detail request was made for a program whose file the first run left
R_noRefetch ==
    \A i \in 1..Len(processed) :
        cache0[processed[i].pid] # Absent => ~processed[i].fetched

M_selected ==
    {ProgramId(ProgramsPayload[i].v) :
        i \in {k \in 1..Len(ProgramsPayload) :
                 /\ ProgramsPayload[k].t = "dict"
                 /\ "programId" \in DOMAIN ProgramsPayload[k].v
                 /\ ProgramId(ProgramsPayload[k].v) >= args.start_id.val
                 /\ ProgramId(ProgramsPayload[k].v) <= args.end_id.val}}
\* the rows entry i of processed stands for
M_rows(i) ==
    IF processed[i].outcome = "ok"
    THEN normalize_program(majors_filtered[i], processed[i].mt, args.year,
                           exclude_school_ids).rows
    ELSE <<>>

\* C7: whatever programs fail to load, fetch or normalize, the loop processes
\* every selected program once, in ascending programId order, the run is not
\* aborted, a failing program adds no row and all_rows is at every moment the
\* concatenation, in processing order, of the rows of the programs that
\* succeeded.
C7_FailureIsolation ==
    /\ pc \in {"loop", "detail", "write", "done"} =>
           /\ all_rows = Flatten([i \in 1..Len(processed) |-> M_rows(i)])
           /\ Len(processed) = idx - 1
           /\ \A i \in 1..Len(processed) :
                  /\ processed[i].pid \in M_selected
                  /\ Cardinality({p \in M_selected : p < processed[i].pid}) = i - 1
                  /\ ProgramId(majors_filtered[i]) = processed[i].pid
           /\ pc = "done" => Len(processed) = Cardinality(M_selected)
    /\ pc = "aborted" => processed = <<>> /\ idx = 0

\* C7's case: the run ended after the first program gave rows and the second
\* failed, and after the first failed and the second gave rows
C7_Witness ==
    /\ pc = "done" /\ Len(processed) = 2
    /\ processed[1].outcome = "ok" /\ all_rows # <<>>
    /\ processed[2].outcome \in {"fetch_failed", "normalize_failed", "cache_corrupt"}

\* C9: a list payload that is no list aborts the run: no detail request was
\* or is made, no cache file was read or written, no table is written, and
\* nothing follows the abort but a new run.
C9_NonListAborts ==
    [][ /\ (/\ pc = "majors" /\ gj.st = "returned" /\ gj.result.t # "list"
            /\ pc' # "killed") =>
               /\ pc' = "aborted"
               /\ gj.url = MAJORS_URL /\ gj' = NoCall
               /\ processed' = <<>> /\ idx' = 0
               /\ cache' = cache /\ cache' = cache0
               /\ out_written' = NoTable
        /\ pc = "aborted" => pc' = "start"
      ]_vars

\* C9's case: a run over a cache that holds files aborted on a non-list payload
C9_Witness ==
    /\ pc = "aborted"
    /\ why = "ValueError: Majors payload is not a list."
    /\ \E p \in PIDs : cache[p] # Absent

\* C10: in a run that follows a terminated one, with --force off, every
\* existing cache file holds a full response and load_or_fetch_majortrans gives
\* a complete record for a program whose file exists: outside the write itself
\* no file is incomplete, and no load of a file fails to decode.
C10_ResumeSafe ==
    /\ pc \notin {"write", "killed"} => \A p \in PIDs : cache[p] # Partial
    /\ \A i \in 1..Len(processed) : processed[i].outcome # "cache_corrupt"

-----------------------------------------------------------------------------
(* SpecNorm: normalize_program applied to every bounded detail record *)

MaxPoints == 3

NormNames == {JStr(<<"A", "b">>), JStr(<<"B">>)}
NormYears == {DEFAULT_YEAR - 1, DEFAULT_YEAR}
NormSids == {Null, JInt(134), JInt(5)}
NormExcludes == {{}, DEFAULT_EXCLUDE_IDS}

\* name, year and schoolProfileId of a point: a named point of any year and
\* profile, or a point whose instituteLegalName is the empty string
NormShapes ==
    (NormNames \X NormYears \X NormSids)
    \cup ({JStr(<<>>)} \X NormYears \X {Null})

\* a data point; a Null sid stands for a point without the schoolProfileId key
DataPoint(i, nm, yr, sid) ==
    LET core == [instituteLegalName |-> nm, year |-> JInt(yr),
                 degreeLevelId |-> JInt(i)]
    IN  IF sid = Null THEN core ELSE core @@ [schoolProfileId |-> sid]

\* the detail record with n data points shaped by f, the i-th with
\* degreeLevelId i
DetailRecord(n, f) ==
    [degreeLevelData |-> [i \in 1..n |-> DataPoint(i, f[i][1], f[i][2], f[i][3])]]

NormProgram == [programId |-> JInt(30), programLongName |-> JStr(<<"A">>)]

Pending == [st |-> "pending", rows |-> <<>>]

InitNorm ==
    /\ MainIdle
    /\ \E n \in 0..MaxPoints : \E f \in [1..n -> NormShapes] :
       \E ex \in NormExcludes : \E yr \in NormYears :
           n_in = [program |-> NormProgram,
                   majortrans |-> DetailRecord(n, f),
                   year |-> yr,
                   exclude |-> ex]
    /\ n_out = Pending

NormCall ==
    /\ n_out = Pending
    /\ LET res == normalize_program(n_in.program, n_in.majortrans,
                                    n_in.year, n_in.exclude)
       IN  n_out' = [st |-> IF res.ok THEN "returned" ELSE "raised",
                     rows |-> res.rows]
    /\ UNCHANGED <<n_in, mainVars>>

NextNorm == NormCall

SpecNorm == InitNorm /\ [][NextNorm]_vars

\* what the claims read of a call: its points, the survivors of the exclusion
N_dld == n_in.majortrans["degreeLevelData"]
N_idx == 1..Len(N_dld)
N_name(i) == Get(N_dld[i], "instituteLegalName")
N_named(i) == N_name(i).t = "str" /\ N_name(i).v # <<>>
N_survives(i) ==
    \/ "schoolProfileId" \notin DOMAIN N_dld[i]
    \/ N_dld[i]["schoolProfileId"].v \notin n_in.exclude
N_atYear(i) == Get(N_dld[i], "year") = JInt(n_in.year)
N_rowsOf(inst) ==
    {j \in 1..Len(n_out.rows) : n_out.rows[j].instituteLegalName = inst}

\* C1: for each institute of the universe (the named institutes of the points
\* that survive the exclusion, over all years) normalize_program emits, when
\* the institute has k >= 1 surviving target-year points, exactly k rows, one
\* per point and in the points' order, flagged 1 and carrying the point's
\* metric fields; when it has none, exactly one row flagged 0 with every
\* metric null.  No other row is emitted and the rows are in ascending
\* lexical order of institute.
C1_RowsPerInstitute ==
    n_out.st = "returned" =>
        LET out == n_out.rows
            U == {N_name(i).v : i \in {j \in N_idx : N_survives(j) /\ N_named(j)}}
            T(inst) == {i \in N_idx : /\ N_survives(i)
                                      /\ N_name(i) = JStr(inst)
                                      /\ N_atYear(i)}
        IN  /\ \A j \in 1..Len(out) : out[j].instituteLegalName \in U
            /\ \A j, k \in 1..Len(out) :
                   j < k => ~StrLess(out[k].instituteLegalName,
                                     out[j].instituteLegalName)
            /\ \A inst \in U :
                   IF T(inst) # {}
                   THEN /\ Cardinality(N_rowsOf(inst)) = Cardinality(T(inst))
                        /\ \A i \in T(inst) :
                               \E j \in N_rowsOf(inst) :
                                   /\ out[j].has_year_data = 1
                                   /\ \A m \in 1..Len(metric_keys) :
                                          out[j][metric_keys[m]] =
                                              Get(N_dld[i], metric_keys[m])
                        /\ \A j, k \in N_rowsOf(inst) :
                               j < k => out[j].degreeLevelId.v < out[k].degreeLevelId.v
                   ELSE /\ Cardinality(N_rowsOf(inst)) = 1
                        /\ \A j \in N_rowsOf(inst) :
                               /\ out[j].has_year_data = 0
                               /\ \A m \in 1..Len(metric_keys) :
                                      out[j][metric_keys[m]] = Null

\* C1's case: one institute with two target-year rows, a later institute with
\* a placeholder row
C1_Witness ==
    /\ n_out.st = "returned"
    /\ Len(n_out.rows) = 3
    /\ n_out.rows[1].has_year_data = 1
    /\ n_out.rows[2].has_year_data = 1
    /\ n_out.rows[1].instituteLegalName = n_out.rows[2].instituteLegalName
    /\ n_out.rows[3].has_year_data = 0

\* C2 as stated: an institute named by any point before exclusion is in the
\* output exactly when it is not excluded, and an institute that has a point
\* removed by the exclusion has no row at all (never a mix).
C2_NeverAMix ==
    n_out.st = "returned" =>
        \A i \in N_idx :
            N_named(i) =>
                LET inst == N_name(i).v
                    excluded == \E k \in N_idx :
                                    N_name(k) = N_name(i) /\ ~N_survives(k)
                IN  IF excluded THEN N_rowsOf(inst) = {}
                    ELSE N_rowsOf(inst) # {}

\* C2 amended: the exclusion acts on data points, not on institutes.  An
\* institute named before exclusion has rows exactly when at least one of its
\* points survives; a removed point yields no row; a surviving target-year
\* point (one without schoolProfileId included) yields its row.
C2_ExclusionPerPoint ==
    n_out.st = "returned" =>
        LET out == n_out.rows
        IN  /\ \A i \in N_idx :
                   N_named(i) =>
                       (N_rowsOf(N_name(i).v) # {}
                          <=> \E k \in N_idx :
                                  N_name(k) = N_name(i) /\ N_survives(k))
            /\ \A i \in N_idx :
                   ~N_survives(i) =>
                       \A j \in 1..Len(out) : out[j].degreeLevelId # JInt(i)
            /\ \A i \in N_idx :
                   (N_survives(i) /\ N_named(i) /\ N_atYear(i)) =>
                       \E j \in 1..Len(out) :
                           /\ out[j].degreeLevelId = JInt(i)
                           /\ out[j].schoolProfileId = Get(N_dld[i], "schoolProfileId")

\* C2's case: an institute with a removed point and a surviving point that has
\* a row, a point without schoolProfileId that has a row, and an institute all
\* of whose points were removed
C2_Witness ==
    /\ n_out.st = "returned"
    /\ \E i, k \in N_idx :
           /\ N_named(i) /\ N_name(i) = N_name(k)
           /\ ~N_survives(i) /\ N_survives(k)
           /\ N_rowsOf(N_name(i).v) # {}
    /\ \E i \in N_idx :
           /\ N_named(i) /\ ~N_survives(i)
           /\ N_rowsOf(N_name(i).v) = {}
    /\ \E j \in 1..Len(n_out.rows) :
           n_out.rows[j].has_year_data = 1 /\ n_out.rows[j].schoolProfileId = Null

-----------------------------------------------------------------------------
(* SpecGet: one get_json call, for every retry bound and every answer *)

MaxRetries == 3

GetOutcomes ==
    {Ok(JDict(<<>>)), ConnectionError, Timeout, HTTPErrorNoResponse, JSONDecodeError}
    \cup {HTTPError(st) : st \in {400, 404, 428, 429, 430, 499, 500, 503, 599}}

InitGet ==
    /\ n_in = <<>> /\ n_out = <<>>
    /\ args = [exclude_school_ids |-> NoneStr, start_id |-> NoneInt,
               end_id |-> NoneInt, year |-> DEFAULT_YEAR, force |-> FALSE]
    /\ pc = "get_json" /\ why = "" /\ exclude_school_ids = {}
    /\ \E n \in 1..MaxRetries : gj = NewCall(MAJORS_URL, n)
    /\ majors_filtered = <<>> /\ idx = 0 /\ all_rows = <<>> /\ processed = <<>>
    /\ cache = [p \in PIDs |-> Absent] /\ cache0 = [p \in PIDs |-> Absent]
    /\ out_written = NoTable /\ prev = NoPrev

NextGet == \E o \in GetOutcomes : GetJsonAttempt(o)

SpecGet == InitGet /\ [][NextGet]_vars

\* the requests of the call, as positions of its trace
G_requests == {i \in 1..Len(gj.log) : gj.log[i].ev = "request"}
\* the number of the attempt made at position i
G_attemptNo(i) == Cardinality({j \in G_requests : j <= i})
\* a retryable failure: connection failure, timeout, HTTP 429, HTTP 5xx
G_retryable(o) ==
    \/ o.kind \in {"ConnectionError", "Timeout"}
    \/ (o.kind = "HTTPError" /\ o.resp /\ o.status \in {429} \cup (500..599))

\* C5: with retry bound N, attempt k+1 is made only when attempt k failed
\* retryably and k < N, so at most N requests are made; the call returns the
\* body of the first successful attempt and makes no further request; N
\* retryable failures end the call raising the last attempt's error; a sleep
\* stands only between two attempts, never after the final one.
C5_BoundedRetry ==
    gj.st \in {"running", "returned", "raised"} =>
        /\ Cardinality(G_requests) <= gj.retries
        /\ \A i, j \in G_requests :
               (i < j /\ G_attemptNo(j) = G_attemptNo(i) + 1) =>
                   G_retryable(gj.log[i].outcome) /\ G_attemptNo(i) < gj.retries
        /\ \A i \in G_requests :
               gj.log[i].outcome.kind = "ok" =>
                   /\ i = Len(gj.log)
                   /\ gj.st = "returned"
                   /\ gj.result = gj.log[i].outcome.body
        /\ gj.st = "returned" =>
               gj.log # <<>> /\ gj.log[Len(gj.log)].outcome.kind = "ok"
        /\ (/\ Cardinality(G_requests) = gj.retries
            /\ \A i \in G_requests : G_retryable(gj.log[i].outcome)) =>
               \E i \in G_requests :
                   /\ G_attemptNo(i) = gj.retries
                   /\ gj.st = "raised"
                   /\ gj.exc = gj.log[i].outcome
        /\ \A i \in 1..Len(gj.log) :
               gj.log[i].ev = "sleep" =>
                   /\ i > 1 /\ gj.log[i - 1].ev = "request"
                   /\ IF i < Len(gj.log) THEN gj.log[i + 1].ev = "request"
                      ELSE gj.st = "running"

\* C5's case: every attempt of a call with N >= 2 failed retryably, with a
\* sleep between the attempts
C5_Witness ==
    /\ gj.st = "raised"
    /\ gj.retries >= 2
    /\ Cardinality(G_requests) = gj.retries
    /\ \A i \in G_requests : G_retryable(gj.log[i].outcome)
    /\ \E i \in 1..Len(gj.log) : gj.log[i].ev = "sleep"

\* C6: an attempt that ends with an HTTP error that is not 429 or 5xx, or with
\* a body that is not JSON, ends the call with that error: it is the last
\* event of the call, no request and no sleep follows, whatever came before.
C6_FailFast ==
    gj.st \in {"running", "returned", "raised"} =>
        \A i \in G_requests :
            LET o == gj.log[i].outcome
            IN  (\/ o.kind = "JSONDecodeError"
                 \/ (o.kind = "HTTPError" /\ ~G_retryable(o))) =>
                    /\ i = Len(gj.log)
                    /\ gj.st = "raised"
                    /\ gj.exc = o

\* C6's case: a 404 and an invalid body, each after an earlier retryable failure
C6_Witness ==
    /\ gj.st = "raised"
    /\ Len(gj.log) >= 3
    /\ G_retryable(gj.log[1].outcome)
    /\ gj.exc \in {HTTPError(404), JSONDecodeError}

-----------------------------------------------------------------------------
(* SpecArgs: the start of main for every bounded --exclude-school-ids *)

MaxLen == 3

ArgChars == {"1", "5", ",", " ", "x"}

ArgStrings == UNION {[1..n -> ArgChars] : n \in 0..MaxLen}

InitArgs ==
    /\ n_in = <<>> /\ n_out = <<>>
    /\ args \in [exclude_school_ids : {NoneStr} \cup {SomeStr(s) : s \in ArgStrings},
                 start_id : {NoneInt}, end_id : {NoneInt},
                 year : {DEFAULT_YEAR}, force : {FALSE}]
    /\ pc = "start" /\ why = "" /\ exclude_school_ids = {} /\ gj = NoCall
    /\ majors_filtered = <<>> /\ idx = 0 /\ all_rows = <<>> /\ processed = <<>>
    /\ cache = [p \in PIDs |-> Absent] /\ cache0 = [p \in PIDs |-> Absent]
    /\ out_written = NoTable /\ prev = NoPrev

NextArgs ==
    \/ DetermineExclusion
    \/ FetchMajors
    \/ \E o \in {ConnectionError, Ok(JList(ProgramsPayload))} : GetJsonAttempt(o)

SpecArgs == InitArgs /\ [][NextArgs]_vars

\* the default set the module docstring and the flag's help text document
DocumentedDefault == {134, 132, 141}

A_raw == args.exclude_school_ids.s
A_sep(c) == c \in {",", " "}
\* the tokens of the flag: the maximal runs of characters other than , and space
A_tokens ==
    {<<i, j>> \in (1..Len(A_raw)) \X (1..Len(A_raw)) :
        /\ i <= j
        /\ \A k \in i..j : ~A_sep(A_raw[k])
        /\ (i = 1 \/ A_sep(A_raw[i - 1]))
        /\ (j = Len(A_raw) \/ A_sep(A_raw[j + 1]))}
A_isInt(tk) == \A k \in tk[1]..tk[2] : A_raw[k] \in {"1", "5"}
A_value(tk) == DigitsValue(SubSeq(A_raw, tk[1], tk[2]), 0)

\* the exclusion set the flag asks for, given the default of an omitted flag
A_expected(default) ==
    IF ~args.exclude_school_ids.given THEN default
    ELSE {A_value(tk) : tk \in A_tokens}

\* the flag determines the run's start: with integer tokens only, the run goes
\* on with the set A_expected; with a non-integer token it aborts with no
\* get_json call made
A_decides(default) ==
    IF args.exclude_school_ids.given /\ \E tk \in A_tokens : ~A_isInt(tk)
    THEN pc \in {"start", "aborted"} /\ gj = NoCall
    ELSE /\ pc # "aborted"
         /\ pc # "start" => exclude_school_ids = A_expected(default)

\* C8: the exclusion set of a run is a function of the flag alone: omitted,
\* the documented default {134, 132, 141}; the empty string, the empty set; a
\* string of comma/space-separated integers, exactly those integers; a string
\* with a non-integer token aborts the run before any network call.
C8_ExclusionSet == A_decides(DocumentedDefault)

=============================================================================
